---- MODULE Spec2Model ----
\* State-machine model of the rmw_zenoh_cpp data plane
\* (src/rmw_zenoh_cpp/src/detail/rmw_data_types.cpp): the subscription
\* message queue, the service query queue and sequence map, the client reply
\* queue and sequence-number generator, the per-entity user callback data and
\* the condition-variable bridge, driven by transport threads (the wire
\* handlers) and application threads (pop / set-callback / attach / detach).
\*
\* Every std::mutex of the source is a cell of `mutex`; every member function
\* is a chain of steps of one thread, cut where the source acquires a lock and
\* between a read and the write that depends on it, so that the interleavings
\* the locks allow (and the ones they forbid) are those of the code.
\*
\* A transport thread's push shows every lock it waits for; an application
\* thread's call (pop, set-callback, attach, detach, the map operations) holds
\* one mutex at a time and starts with the step that acquires it.
\*
\* The three entities share no state.  `entity` fixes, for a whole behaviour,
\* the entity object the threads operate on; the state of the other entities
\* stays as constructed.
EXTENDS Integers, Sequences, FiniteSets, TLC

\* ---------------------------------------------------------------- bounds
MaxDepth == 2       \* largest adapted_qos_profile.depth tried
MaxArrivals == 3    \* wire-handler invocations per behaviour
MaxSetCalls == 2    \* set_on_new_*_callback calls per behaviour
MaxSeqCalls == 3    \* get_next_sequence_number calls per behaviour

Threads == {"t1", "t2", "t3"}
\* The threads of the specifications whose operations share one mutex chain.
Workers == {"t1", "t2"}
NoThread == "none"

NULL == "nullptr"
\* What a thread holds between calls, and what a call returns: nothing (a
\* void function), an empty std::unique_ptr, a queued item, a sequence
\* number, the state of the transport's reply handle.
NoVal == [none |-> TRUE]
Empty == [null |-> TRUE]
Item(id) == [item |-> id]
Number(n) == [number |-> n]
Handle(reply) == [reply |-> reply]

Entities == {"subscription", "service", "client"}
\* The entities with QoS events, and the event kinds of rmw_zenoh_event_type_t:
\* 0 is ZENOH_EVENT_INVALID, the last one ZENOH_EVENT_ID_MAX.
EventEntities == {"publisher", "subscription"}
ZENOH_EVENT_ID_MAX == 2
EventKinds == 0..ZENOH_EVENT_ID_MAX
\* The event_id arguments tried: the known kinds and one past them.
EventIds == 0..(ZENOH_EVENT_ID_MAX + 1)
Callbacks == {"cb1", "cb2"}
UserData == {"ud1", "ud2"}
\* The <<user_data, callback>> arguments the application passes.
SetArgs == {<<NULL, NULL>>, <<"ud1", NULL>>, <<"ud1", "cb1">>, <<"ud2", "cb1">>,
            <<"ud2", "cb2">>}
CVs == {"cv1", "cv2"}
Keys == {41, 42}                 \* request sequence numbers used as map keys
Queries == {"q1", "q2"}          \* ZenohQuery objects handed to the map
ReplyKinds == {"invalid", "error", "ok"}   \* what the transport hands over

VARIABLES
  entity,               \* the entity object the behaviour operates on
  depth,                \* rmw_subscription_data_t::adapted_qos_profile.depth
  message_queue_,       \* rmw_subscription_data_t::message_queue_ (payload ids)
  query_queue_,         \* rmw_service_data_t::query_queue_
  reply_queue_,         \* rmw_client_data_t::reply_queue_
  sequence_to_query_map_,  \* rmw_service_data_t::sequence_to_query_map_
  sequence_number,      \* rmw_client_data_t::sequence_number
  user_callback_data_,  \* per entity: callback, user_data, unread_count
  event_callback_data_, \* per entity with events, the event members of its
                        \* user_callback_data_: event_callback, event_data,
                        \* event_unread_count, each indexed by event kind
  condition_,           \* per entity: the attached std::condition_variable *
  mutex,                \* per std::mutex: the thread that holds it
  pc,                   \* per thread: its position in the member function
  local,                \* per thread: the local variable of the running call
  ret,                  \* per thread: the value its last completed call returned
  arrivals,             \* wire-handler invocations and QoS events so far
  pushed,               \* items inserted into the entity's queue so far
  popped,               \* the items returned by successful pops, in order
  dropped,              \* the payloads released by eviction (z_drop), in order
  cb_log,               \* the user-callback invocations: how many, the sum
                        \* of their counts, and the last one
  set_calls,            \* set_on_new_*_callback and event_set_callback calls
  notified,             \* per condition variable: notify_one() calls
  accepted,             \* the <<sequence number, query>> pairs add_to_query_map
                        \* took (returned true) and take_from_query_map has
                        \* not returned yet
  seq_calls,            \* get_next_sequence_number calls so far
  issued,               \* the values get_next_sequence_number returned, in order
  log_,                 \* diagnostics emitted: errors, queue-depth messages
  rmw_event             \* the rmw_event_t handle of the application

cfg == <<entity, depth>>
queues == <<message_queue_, query_queue_, reply_queue_>>
ghost_q == <<pushed, popped, dropped>>
svc_cli == <<sequence_to_query_map_, accepted, sequence_number, issued, seq_calls>>
events == <<user_callback_data_, event_callback_data_, cb_log, set_calls,
            rmw_event>>
conds == <<condition_, notified>>
vars == <<entity, depth, message_queue_, query_queue_, reply_queue_,
          sequence_to_query_map_, sequence_number,
          user_callback_data_, event_callback_data_, condition_, mutex, pc,
          local, ret,
          arrivals, pushed, popped, dropped, cb_log, set_calls, notified,
          accepted, issued, seq_calls, log_, rmw_event>>

\* ---------------------------------------------------------------- mutexes
QueueMutex(e) == <<e, "queue_mutex_">>
EventMutex(e) == <<e, "user_callback_data_.mutex">>
CondMutex(e) == <<e, "condition_mutex_">>
MapMutex == <<"service", "sequence_to_query_map_mutex_">>
SeqMutex == <<"client", "sequence_number_mutex">>
Mutexes ==
  UNION {{QueueMutex(e), EventMutex(e), CondMutex(e)} : e \in Entities}
    \cup {MapMutex, SeqMutex, EventMutex("publisher")}

\* A lock that excludes nobody.
CanLockUnguarded(m) == TRUE

\* std::mutex::lock returns only when no thread holds the mutex.
CanLock(m) == mutex[m] = NoThread

Lock(mx, t, m) == [mx EXCEPT ![m] = t]
Unlock(mx, m) == [mx EXCEPT ![m] = NoThread]

\* ---------------------------------------------------------------- helpers
Goto(t, l) == pc' = [pc EXCEPT ![t] = l]

\* A call returns value v to thread t.
Return(t, v) ==
  /\ pc' = [pc EXCEPT ![t] = "idle"]
  /\ ret' = [ret EXCEPT ![t] = v]
  /\ local' = [local EXCEPT ![t] = NoVal]

\* Thread t enters a member function of entity e and goes on at label l.
Call(t, e, l) ==
  /\ pc[t] = "idle"
  /\ entity = e
  /\ pc' = [pc EXCEPT ![t] = l]
  /\ ret' = [ret EXCEPT ![t] = NoVal]

At(t, e, l) == pc[t] = l /\ entity = e

Invocation(cb, ud, n) == [callback |-> cb, user_data |-> ud, count |-> n]

\* The record of the invocations after those of `calls` (at most one).
Logged(lg, calls) ==
  IF calls = <<>> THEN lg
  ELSE [calls |-> lg.calls + 1, sum |-> lg.sum + calls[1].count, last |-> calls[1]]

Queue(e) ==
  CASE e = "subscription" -> message_queue_
    [] e = "service" -> query_queue_
    [] e = "client" -> reply_queue_

SetQueue(e, q) ==
  /\ message_queue_' = IF e = "subscription" THEN q ELSE message_queue_
  /\ query_queue_' = IF e = "service" THEN q ELSE query_queue_
  /\ reply_queue_' = IF e = "client" THEN q ELSE reply_queue_

\* An rmw_event_t before rmw_*_event_init: rmw_get_zero_initialized_event().
ZeroInitializedEvent ==
  [implementation_identifier |-> NULL, data |-> NULL,
   event_type |-> "RMW_EVENT_INVALID"]

\* The first value of rmw_client_data_t::sequence_number.
FirstSequenceNumber == 0

\* The objects as constructed, for the entity the behaviour operates on and
\* the depth rmw_create_subscription stored.
Constructed(entities, depths) ==
  /\ entity \in entities
  /\ depth \in depths
  /\ message_queue_ = <<>>
  /\ query_queue_ = <<>>
  /\ reply_queue_ = <<>>
  /\ sequence_to_query_map_ = [k \in {} |-> NoVal]
  /\ accepted = {}
  /\ sequence_number = FirstSequenceNumber
  /\ user_callback_data_ =
       [e \in Entities |-> [callback |-> NULL, user_data |-> NULL, unread_count |-> 0]]
  /\ event_callback_data_ =
       [e \in EventEntities |->
          [event_callback |-> [k \in EventKinds |-> NULL],
           event_data |-> [k \in EventKinds |-> NULL],
           event_unread_count |-> [k \in EventKinds |-> 0]]]
  /\ condition_ = [e \in Entities |-> NULL]
  /\ mutex = [m \in Mutexes |-> NoThread]
  /\ pc = [t \in Threads |-> "idle"]
  /\ local = [t \in Threads |-> NoVal]
  /\ ret = [t \in Threads |-> NoVal]
  /\ arrivals = 0
  /\ pushed = 0
  /\ popped = <<>>
  /\ dropped = <<>>
  /\ cb_log = [calls |-> 0, sum |-> 0, last |-> NoVal]
  /\ set_calls = 0
  /\ notified = [c \in CVs |-> 0]
  /\ issued = <<>>
  /\ seq_calls = 0
  /\ log_ = [error |-> 0, debug |-> 0]
  /\ rmw_event = ZeroInitializedEvent

\* rmw_create_subscription stores a depth of at least 1.
Init == Constructed(Entities, 1..MaxDepth)

\* ------------------------------------------------ condition-variable bridge
\* attach_condition(cv): called by the wait set of an application thread.
attach_condition_lock(t, e) ==
  /\ Call(t, e, "attach_store")
  /\ CanLock(CondMutex(e))
  /\ mutex' = Lock(mutex, t, CondMutex(e))
  /\ \E cv \in CVs : local' = [local EXCEPT ![t] = [condition_variable |-> cv]]
  /\ UNCHANGED <<cfg, queues, ghost_q, svc_cli, events, conds, arrivals, log_>>

\* An attach that keeps a condition already attached.
AttachedKeepsFirst(old, cv) == IF old # NULL THEN old ELSE cv

\* condition_ = condition_variable;
Attached(old, cv) == cv

attach_condition(t, e) ==
  /\ At(t, e, "attach_store")
  /\ condition_' =
       [condition_ EXCEPT ![e] = Attached(@, local[t].condition_variable)]
  /\ mutex' = Unlock(mutex, CondMutex(e))
  /\ Return(t, NoVal)
  /\ UNCHANGED <<cfg, queues, ghost_q, svc_cli, events, notified, arrivals, log_>>

detach_condition_lock(t, e) ==
  /\ Call(t, e, "detach_store")
  /\ CanLock(CondMutex(e))
  /\ mutex' = Lock(mutex, t, CondMutex(e))
  /\ UNCHANGED <<cfg, queues, ghost_q, svc_cli, events, conds, local,
                 arrivals, log_>>

detach_condition(t, e) ==
  /\ At(t, e, "detach_store")
  /\ condition_' = [condition_ EXCEPT ![e] = NULL]
  /\ mutex' = Unlock(mutex, CondMutex(e))
  /\ Return(t, NoVal)
  /\ UNCHANGED <<cfg, queues, ghost_q, svc_cli, events, notified, arrivals, log_>>

\* ------------------------------------------------------------------- pops
\* pop_next_message / pop_next_query / pop_next_reply.
pop_next_lock(t, e) ==
  /\ Call(t, e, "pop_front")
  /\ CanLock(QueueMutex(e))
  /\ mutex' = Lock(mutex, t, QueueMutex(e))
  /\ UNCHANGED <<cfg, queues, ghost_q, svc_cli, events, conds, local,
                 arrivals, log_>>

\* The newest element where the oldest is meant.
Back(q) == q[Len(q)]

\* std::deque::front and the deque after pop_front.
Front(q) == Head(q)

\* A pop that leaves the record in the queue.
PopFrontKept(q) == q

PopFront(q) == IF q = <<>> THEN q ELSE Tail(q)

\* A pop that waits for an element where the code returns nullptr.
pop_next_front_waiting(t, e) ==
  /\ At(t, e, "pop_front")
  /\ Queue(e) # <<>>
  /\ local' = [local EXCEPT ![t] = Front(Queue(e))]
  /\ Goto(t, "pop_pop_front")
  /\ UNCHANGED <<mutex, ret>>
  /\ UNCHANGED <<cfg, queues, ghost_q, svc_cli, events, conds, arrivals, log_>>

\* if (queue.empty()) return nullptr;  x = std::move(queue.front());
pop_next_front(t, e) ==
  /\ At(t, e, "pop_front")
  /\ IF Queue(e) = <<>>
       THEN /\ mutex' = Unlock(mutex, QueueMutex(e))
            /\ Return(t, Empty)
       ELSE /\ local' = [local EXCEPT ![t] = Front(Queue(e))]
            /\ Goto(t, "pop_pop_front")
            /\ UNCHANGED <<mutex, ret>>
  /\ UNCHANGED <<cfg, queues, ghost_q, svc_cli, events, conds, arrivals, log_>>

\* queue.pop_front();  return x;
pop_next_pop_front(t, e) ==
  /\ At(t, e, "pop_pop_front")
  /\ SetQueue(e, PopFront(Queue(e)))
  /\ popped' = Append(popped, local[t])
  /\ mutex' = Unlock(mutex, QueueMutex(e))
  /\ Return(t, Item(local[t]))
  /\ UNCHANGED <<cfg, pushed, dropped, svc_cli, events, conds, arrivals, log_>>

\* message_queue_is_empty / query_queue_is_empty / reply_queue_is_empty: lock
\* the queue mutex ...
queue_is_empty_lock(t, e) ==
  /\ Call(t, e, "is_empty")
  /\ CanLock(QueueMutex(e))
  /\ mutex' = Lock(mutex, t, QueueMutex(e))
  /\ UNCHANGED <<cfg, queues, ghost_q, svc_cli, events, conds, local, arrivals,
                 log_>>

\* ... and return queue.empty().
queue_is_empty(t, e) ==
  /\ At(t, e, "is_empty")
  /\ mutex' = Unlock(mutex, QueueMutex(e))
  /\ Return(t, [empty |-> Queue(e) = <<>>])
  /\ UNCHANGED <<cfg, queues, ghost_q, svc_cli, events, conds, arrivals, log_>>

\* ------------------------------------------------------------ wire handlers
\* The transport invokes the entity's wire handler on one of its threads with
\* the user-data pointer `data` and, for a reply, the reply handle `reply`.
transport_callback(t) ==
  /\ pc[t] = "idle"
  /\ arrivals < MaxArrivals
  /\ arrivals' = arrivals + 1
  /\ \E data \in {NULL, entity}, reply \in ReplyKinds :
       /\ entity # "client" => reply = "ok"
       /\ local' = [local EXCEPT ![t] =
            [data |-> data, reply |-> IF entity = "client" THEN reply ELSE NoVal,
             item |-> 0, condition_ |-> NULL]]
  /\ Goto(t, "handler")
  /\ ret' = [ret EXCEPT ![t] = NoVal]
  /\ UNCHANGED <<cfg, queues, ghost_q, svc_cli, events, conds, mutex, log_>>

\* A handler that takes any pointer for an entity.
DestinationNeverNull(data) == FALSE

\* if (sub_data == nullptr), if (service_data == nullptr),
\* if (client_data == nullptr)
DestinationIsNull(data) == data = NULL

\* sub_data_handler(sample, data): a null `data` is logged and dropped, any
\* other is the subscription, whose add_new_message takes the payload.
sub_data_handler(t) ==
  /\ At(t, "subscription", "handler")
  /\ IF DestinationIsNull(local[t].data)
       THEN /\ log_' = [log_ EXCEPT !.error = @ + 1]
            /\ Return(t, NoVal)
       ELSE /\ Goto(t, "push_lock")
            /\ UNCHANGED <<log_, local, ret>>
  /\ UNCHANGED <<cfg, queues, ghost_q, svc_cli, events, conds, mutex, arrivals>>

\* service_data_handler(query, data).
service_data_handler(t) ==
  /\ At(t, "service", "handler")
  /\ IF DestinationIsNull(local[t].data)
       THEN /\ log_' = [log_ EXCEPT !.error = @ + 1]
            /\ Return(t, NoVal)
       ELSE /\ Goto(t, "push_lock")
            /\ UNCHANGED <<log_, local, ret>>
  /\ UNCHANGED <<cfg, queues, ghost_q, svc_cli, events, conds, mutex, arrivals>>

z_reply_check(reply) == reply # "invalid"

z_reply_is_ok(reply) == reply = "ok"

\* A handler without the z_reply_is_ok test.
ReplyIsQueuedUnlessInvalid(data, reply) ==
  ~DestinationIsNull(data) /\ z_reply_check(reply)

\* Whether client_data_handler goes on to add_new_reply.
ReplyIsQueued(data, reply) ==
  ~DestinationIsNull(data) /\ z_reply_check(reply) /\ z_reply_is_ok(reply)

\* client_data_handler(reply, data): a handler that returns early leaves the
\* transport's reply handle *reply as it was (the value returned here).
client_data_handler(t) ==
  /\ At(t, "client", "handler")
  /\ IF ReplyIsQueued(local[t].data, local[t].reply)
       THEN /\ Goto(t, "push_lock")
            /\ UNCHANGED <<log_, local, ret>>
       ELSE /\ log_' = [log_ EXCEPT !.error = @ + 1]
            /\ Return(t, Handle(local[t].reply))
  /\ UNCHANGED <<cfg, queues, ghost_q, svc_cli, events, conds, mutex, arrivals>>

\* ------------------------------------------------------------------ pushes
\* An eviction without the non-empty test: at depth 0 it releases whatever
\* front() of the empty deque yields (here the payload 0, which no message has).
EvictedUnguarded(q, d) ==
  IF Len(q) >= d THEN <<IF q = <<>> THEN 0 ELSE Head(q)>> ELSE <<>>

\* The record add_new_message drops when the queue is at its depth: the
\* front one, and none when the queue is empty.
Evicted(q, d) == IF Len(q) >= d /\ q # <<>> THEN <<Head(q)>> ELSE <<>>

\* An eviction that starts one message too late (> for >=).
AfterEvictionOffByOne(q, d) == IF Len(q) > d /\ q # <<>> THEN Tail(q) ELSE q

AfterEviction(q, d) == IF Len(q) >= d /\ q # <<>> THEN Tail(q) ELSE q

DepthReachedNever(q, d) == Len(q) > d

\* add_new_message, line 114: the test that guards the queue-depth diagnostic.
DepthReached(q, d) == Len(q) >= d

\* add_new_message, lines 112-132: lock message_queue_mutex_; at the depth,
\* log and z_drop the oldest message.
add_new_message_lock(t) ==
  /\ At(t, "subscription", "push_lock")
  /\ CanLock(QueueMutex("subscription"))
  /\ mutex' = Lock(mutex, t, QueueMutex("subscription"))
  /\ message_queue_' = AfterEviction(message_queue_, depth)
  /\ dropped' = dropped \o Evicted(message_queue_, depth)
  /\ log_' = IF DepthReached(message_queue_, depth)
               THEN [log_ EXCEPT !.debug = @ + 1] ELSE log_
  /\ Goto(t, "push_emplace")
  /\ UNCHANGED <<cfg, query_queue_, reply_queue_, pushed, popped, svc_cli,
                 events, conds, local, ret, arrivals>>

\* An add_new_query / add_new_reply that keeps to the depth as add_new_message
\* does.
add_new_item_lock_evicting(t, e) ==
  /\ e \in {"service", "client"}
  /\ At(t, e, "push_lock")
  /\ CanLock(QueueMutex(e))
  /\ mutex' = Lock(mutex, t, QueueMutex(e))
  /\ SetQueue(e, AfterEviction(Queue(e), depth))
  /\ dropped' = dropped \o Evicted(Queue(e), depth)
  /\ Goto(t, "push_emplace")
  /\ UNCHANGED <<cfg, pushed, popped, svc_cli, events, conds, local, ret,
                 arrivals, log_>>

\* add_new_query / add_new_reply: lock the queue mutex (no test of a depth).
add_new_item_lock(t, e) ==
  /\ e \in {"service", "client"}
  /\ At(t, e, "push_lock")
  /\ CanLock(QueueMutex(e))
  /\ mutex' = Lock(mutex, t, QueueMutex(e))
  /\ Goto(t, "push_emplace")
  /\ UNCHANGED <<cfg, queues, ghost_q, svc_cli, events, conds, local, ret,
                 arrivals, log_>>

\* An insertion that loses the item.
EmplaceBackLost(q, x) == q

\* std::deque::emplace_back
EmplaceBack(q, x) == Append(q, x)

\* queue.emplace_back(std::move(item)): the item is the (pushed+1)-th arrival.
add_new_emplace_back(t, e) ==
  /\ At(t, e, "push_emplace")
  /\ SetQueue(e, EmplaceBack(Queue(e), pushed + 1))
  /\ pushed' = pushed + 1
  /\ local' = [local EXCEPT ![t].item = pushed + 1]
  /\ Goto(t, "push_event_lock")
  /\ UNCHANGED <<cfg, popped, dropped, svc_cli, events, conds, mutex, ret,
                 arrivals, log_>>

\* std::unique_lock lock_event_mutex(user_callback_data_.mutex);
add_new_event_lock(t, e) ==
  /\ At(t, e, "push_event_lock")
  /\ CanLock(EventMutex(e))
  /\ mutex' = Lock(mutex, t, EventMutex(e))
  /\ Goto(t, "push_trigger")
  /\ UNCHANGED <<cfg, queues, ghost_q, svc_cli, events, conds, local, ret,
                 arrivals, log_>>

\* An arrival counted as unread although the callback ran.
TriggerDataCountsAlways(ucd) == [ucd EXCEPT !.unread_count = @ + 1]

\* The registry after one arrival: the callback runs with count 1 when set,
\* else the unread count grows by one.
TriggerData(ucd) ==
  IF ucd.callback # NULL THEN ucd ELSE [ucd EXCEPT !.unread_count = @ + 1]

TriggerCalls(ucd) ==
  IF ucd.callback # NULL
    THEN <<Invocation(ucd.callback, ucd.user_data, 1)>> ELSE <<>>

add_new_trigger(t, e) ==
  /\ At(t, e, "push_trigger")
  /\ user_callback_data_' =
       [user_callback_data_ EXCEPT ![e] = TriggerData(user_callback_data_[e])]
  /\ cb_log' = Logged(cb_log, TriggerCalls(user_callback_data_[e]))
  /\ mutex' = Unlock(mutex, EventMutex(e))
  /\ Goto(t, "push_notify_lock")
  /\ UNCHANGED <<cfg, queues, ghost_q, svc_cli, event_callback_data_,
                 set_calls, conds, local, ret, arrivals, log_, rmw_event>>

\* notify(): lock condition_mutex_ ...
notify_lock(t, e) ==
  /\ At(t, e, "push_notify_lock")
  /\ CanLock(CondMutex(e))
  /\ mutex' = Lock(mutex, t, CondMutex(e))
  /\ Goto(t, "push_notify")
  /\ UNCHANGED <<cfg, queues, ghost_q, svc_cli, events, conds, local, ret,
                 arrivals, log_>>

\* ... if (condition_ != nullptr): the pointer is read ...
notify_read(t, e) ==
  /\ At(t, e, "push_notify")
  /\ local' = [local EXCEPT ![t].condition_ = condition_[e]]
  /\ Goto(t, "push_notify_one")
  /\ UNCHANGED <<cfg, queues, ghost_q, svc_cli, events, conds, mutex, ret,
                 arrivals, log_>>

Notified(n, cv) == IF cv # NULL THEN [n EXCEPT ![cv] = @ + 1] ELSE n

\* ... condition_->notify_one(); and the return of add_new_*, which releases
\* the queue mutex.  client_data_handler then nulls the transport's reply
\* handle.
notify(t, e) ==
  /\ At(t, e, "push_notify_one")
  /\ notified' = Notified(notified, local[t].condition_)
  /\ mutex' = Unlock(Unlock(mutex, CondMutex(e)), QueueMutex(e))
  /\ Return(t, IF e = "client" THEN Handle("z_reply_null") ELSE NoVal)
  /\ UNCHANGED <<cfg, queues, ghost_q, svc_cli, events, condition_, arrivals, log_>>

\* -------------------------------------------------------- set the callback
\* set_on_new_message_callback / set_on_new_request_callback /
\* set_on_new_response_callback(user_data, callback).
set_on_new_callback_lock(t, e) ==
  /\ Call(t, e, "set_store")
  /\ set_calls < MaxSetCalls
  /\ set_calls' = set_calls + 1
  /\ CanLock(EventMutex(e))
  /\ mutex' = Lock(mutex, t, EventMutex(e))
  /\ UNCHANGED <<cfg, queues, ghost_q, svc_cli, user_callback_data_,
                 event_callback_data_, cb_log, conds, local, arrivals, log_,
                 rmw_event>>

\* A flush that leaves the unread count as it was.
SetCallbackDataKeepsCount(ucd, ud, cb) ==
  IF cb # NULL
    THEN [callback |-> cb, user_data |-> ud, unread_count |-> ucd.unread_count]
    ELSE [ucd EXCEPT !.callback = NULL, !.user_data = NULL]

SetCallbackData(ucd, ud, cb) ==
  IF cb # NULL
    THEN [callback |-> cb, user_data |-> ud, unread_count |-> 0]
    ELSE [ucd EXCEPT !.callback = NULL, !.user_data = NULL]

SetCallbackCalls(ucd, ud, cb) ==
  IF cb # NULL /\ ucd.unread_count # 0
    THEN <<Invocation(cb, ud, ucd.unread_count)>> ELSE <<>>

set_on_new_callback(t, e) ==
  /\ At(t, e, "set_store")
  /\ \E a \in SetArgs :
       /\ user_callback_data_' =
            [user_callback_data_ EXCEPT
               ![e] = SetCallbackData(user_callback_data_[e], a[1], a[2])]
       /\ cb_log' = Logged(cb_log, SetCallbackCalls(user_callback_data_[e], a[1], a[2]))
  /\ mutex' = Unlock(mutex, EventMutex(e))
  /\ Return(t, NoVal)
  /\ UNCHANGED <<cfg, queues, ghost_q, svc_cli, event_callback_data_,
                 set_calls, conds, arrivals, log_, rmw_event>>

\* ------------------------------------------------------------ QoS events
\* rmw_publisher_data_t::event_set_callback and
\* rmw_subscription_data_t::event_set_callback(event_id, callback, user_data).
event_set_callback_call(t, e) ==
  /\ e \in EventEntities
  /\ Call(t, e, "event_set_check")
  /\ set_calls < MaxSetCalls
  /\ set_calls' = set_calls + 1
  /\ \E id \in EventIds, a \in SetArgs :
       local' = [local EXCEPT ![t] =
                   [event_id |-> id, callback |-> a[2], user_data |-> a[1],
                    returns |-> NoVal]]
  /\ UNCHANGED <<cfg, queues, ghost_q, svc_cli, user_callback_data_,
                 event_callback_data_, cb_log, conds, mutex, arrivals, log_,
                 rmw_event>>

\* A range test that lets the first kind past the known ones through.
EventIdOutOfRangeOffByOne(event_id) == event_id > ZENOH_EVENT_ID_MAX + 1

\* if (event_id > ZENOH_EVENT_ID_MAX)
EventIdOutOfRange(event_id) == event_id > ZENOH_EVENT_ID_MAX

\* An out-of-range kind sets the error message and returns; any other kind
\* goes on to lock user_callback_data_.mutex.  (The function is void; a call
\* made by rmw_event_set_callback returns that function's RMW_RET_OK.)
event_set_callback_check(t, e) ==
  /\ e \in EventEntities
  /\ At(t, e, "event_set_check")
  /\ IF EventIdOutOfRange(local[t].event_id)
       THEN /\ log_' = [log_ EXCEPT !.error = @ + 1]
            /\ Return(t, local[t].returns)
            /\ UNCHANGED mutex
       ELSE /\ CanLock(EventMutex(e))
            /\ mutex' = Lock(mutex, t, EventMutex(e))
            /\ Goto(t, "event_set_store")
            /\ UNCHANGED <<log_, local, ret>>
  /\ UNCHANGED <<cfg, queues, ghost_q, svc_cli, events, conds, arrivals>>

\* event_callback[event_id] = callback; event_data[event_id] = user_data;
\* with a callback, the unread count of the kind is flushed and zeroed.  (The
\* arrays have no element for a kind past the known ones, which the range
\* test keeps away.)
EventSetCallbackData(ucd, id, cb, ud) ==
  IF id \notin EventKinds THEN ucd
  ELSE [ucd EXCEPT !.event_callback[id] = cb,
                   !.event_data[id] = ud,
                   !.event_unread_count[id] = IF cb # NULL THEN 0 ELSE @]

EventSetCallbackCalls(ucd, id, cb, ud) ==
  IF id \in EventKinds /\ cb # NULL /\ ucd.event_unread_count[id] # 0
    THEN <<Invocation(cb, ud, ucd.event_unread_count[id])>> ELSE <<>>

event_set_callback(t, e) ==
  /\ e \in EventEntities
  /\ At(t, e, "event_set_store")
  /\ LET a == local[t] IN
       /\ event_callback_data_' =
            [event_callback_data_ EXCEPT
               ![e] = EventSetCallbackData(@, a.event_id, a.callback, a.user_data)]
       /\ cb_log' = Logged(cb_log, EventSetCallbackCalls(event_callback_data_[e],
                                     a.event_id, a.callback, a.user_data))
  /\ mutex' = Unlock(mutex, EventMutex(e))
  /\ Return(t, local[t].returns)
  /\ UNCHANGED <<cfg, queues, ghost_q, svc_cli, user_callback_data_,
                 set_calls, conds, arrivals, log_, rmw_event>>

\* The kind of event an entity reports: a subscription
\* ZENOH_EVENT_REQUESTED_QOS_INCOMPATIBLE, a publisher
\* ZENOH_EVENT_OFFERED_QOS_INCOMPATIBLE.
QosEventKind(e) == IF e = "subscription" THEN 1 ELSE ZENOH_EVENT_ID_MAX

\* A QoS event is recorded on the entity: lock its user_callback_data_.mutex ...
record_event_lock(t, e) ==
  /\ e \in EventEntities
  /\ Call(t, e, "event_record")
  /\ arrivals < MaxArrivals
  /\ arrivals' = arrivals + 1
  /\ CanLock(EventMutex(e))
  /\ mutex' = Lock(mutex, t, EventMutex(e))
  /\ local' = [local EXCEPT ![t] = [event_id |-> QosEventKind(e)]]
  /\ UNCHANGED <<cfg, queues, ghost_q, svc_cli, events, conds, log_>>

RecordEventData(ucd, k) ==
  IF ucd.event_callback[k] # NULL THEN ucd
  ELSE [ucd EXCEPT !.event_unread_count[k] = @ + 1]

RecordEventCalls(ucd, k) ==
  IF ucd.event_callback[k] # NULL
    THEN <<Invocation(ucd.event_callback[k], ucd.event_data[k], 1)>> ELSE <<>>

\* ... and invoke the callback of the kind with count 1 when one is set, else
\* add one to the unread count of the kind.
record_event(t, e) ==
  /\ e \in EventEntities
  /\ At(t, e, "event_record")
  /\ event_callback_data_' =
       [event_callback_data_ EXCEPT ![e] = RecordEventData(@, local[t].event_id)]
  /\ cb_log' = Logged(cb_log, RecordEventCalls(event_callback_data_[e],
                                                local[t].event_id))
  /\ mutex' = Unlock(mutex, EventMutex(e))
  /\ Return(t, NoVal)
  /\ UNCHANGED <<cfg, queues, ghost_q, svc_cli, user_callback_data_,
                 set_calls, conds, arrivals, log_, rmw_event>>

\* ------------------------------------------------- rmw_event entry points
rmw_zenoh_identifier == "rmw_zenoh_cpp"
ImplementationIdentifiers == {rmw_zenoh_identifier, "rmw_other_cpp"}

\* event_map: the rmw_event_type_t values supported, with their zenoh kind.
event_map ==
  [ty \in {"RMW_EVENT_REQUESTED_QOS_INCOMPATIBLE",
           "RMW_EVENT_OFFERED_QOS_INCOMPATIBLE"} |->
     IF ty = "RMW_EVENT_REQUESTED_QOS_INCOMPATIBLE"
       THEN QosEventKind("subscription") ELSE QosEventKind("publisher")]

\* The rmw_event_type_t of the QoS event of an entity.
QosEventType(e) ==
  IF e = "subscription" THEN "RMW_EVENT_REQUESTED_QOS_INCOMPATIBLE"
  ELSE "RMW_EVENT_OFFERED_QOS_INCOMPATIBLE"

\* The event types rcl asks for on an entity: its QoS event and one that
\* event_map does not hold.
EventTypeArgs(e) == {QosEventType(e), "RMW_EVENT_LIVELINESS_CHANGED"}

\* The rmw_publisher_t / rmw_subscription_t arguments: a null pointer, or a
\* handle whose identifier and data may be null or foreign.
EntityArgs(e) ==
  {Empty} \cup
  [implementation_identifier : ImplementationIdentifiers \cup {NULL},
   data : {NULL, e}]

RMW_RET(code) == [rmw_ret |-> code]

\* An initialisation that stores the handle before it looks up the type.
EventInitStoresFirst(handle, ent, event_type) ==
  IF \/ handle = Empty \/ ent = Empty
     \/ ent.implementation_identifier = NULL \/ ent.data = NULL
    THEN [rmw_ret |-> "RMW_RET_INVALID_ARGUMENT", rmw_event |-> handle]
  ELSE IF ent.implementation_identifier # rmw_zenoh_identifier
    THEN [rmw_ret |-> "RMW_RET_INCORRECT_RMW_IMPLEMENTATION", rmw_event |-> handle]
  ELSE [rmw_ret |-> IF event_type \in DOMAIN event_map
                      THEN "RMW_RET_OK" ELSE "RMW_RET_UNSUPPORTED",
        rmw_event |-> [implementation_identifier |-> ent.implementation_identifier,
                       data |-> ent.data, event_type |-> event_type]]

\* rmw_publisher_event_init / rmw_subscription_event_init: the code returned
\* and the handle afterwards (handle is Empty for a null rmw_event pointer).
EventInit(handle, ent, event_type) ==
  IF \/ handle = Empty \/ ent = Empty
     \/ ent.implementation_identifier = NULL \/ ent.data = NULL
    THEN [rmw_ret |-> "RMW_RET_INVALID_ARGUMENT", rmw_event |-> handle]
  ELSE IF ent.implementation_identifier # rmw_zenoh_identifier
    THEN [rmw_ret |-> "RMW_RET_INCORRECT_RMW_IMPLEMENTATION", rmw_event |-> handle]
  ELSE IF event_type \notin DOMAIN event_map
    THEN [rmw_ret |-> "RMW_RET_UNSUPPORTED", rmw_event |-> handle]
  ELSE [rmw_ret |-> "RMW_RET_OK",
        rmw_event |-> [implementation_identifier |-> ent.implementation_identifier,
                       data |-> ent.data, event_type |-> event_type]]

\* The call of thread t with the application's handle or a null pointer.
rmw_event_init(t, e) ==
  /\ pc[t] = "idle"
  /\ entity = e
  /\ \E handle \in {Empty, rmw_event}, ent \in EntityArgs(e),
        event_type \in EventTypeArgs(e) :
       LET r == EventInit(handle, ent, event_type) IN
         /\ rmw_event' = IF handle = Empty THEN rmw_event ELSE r.rmw_event
         /\ ret' = [ret EXCEPT ![t] = RMW_RET(r.rmw_ret)]
  /\ UNCHANGED <<cfg, queues, ghost_q, svc_cli, user_callback_data_,
                 event_callback_data_, cb_log, set_calls, conds, mutex, pc,
                 local, arrivals, log_>>

rmw_publisher_event_init(t) == rmw_event_init(t, "publisher")

rmw_subscription_event_init(t) == rmw_event_init(t, "subscription")

\* The rmw_event_t arguments of rmw_event_set_callback and rmw_take_event: a
\* null pointer, the application's handle, and that handle with an event type
\* outside event_map or with the identifier of another implementation.
EventHandleArgs ==
  {Empty, rmw_event,
   [rmw_event EXCEPT !.event_type = "RMW_EVENT_LIVELINESS_CHANGED"],
   [rmw_event EXCEPT !.implementation_identifier = "rmw_other_cpp"]}

\* rmw_event_set_callback up to its switch: the code it returns there.
EventSetCallbackRet(handle) ==
  IF handle = Empty \/ handle.data = NULL THEN "RMW_RET_INVALID_ARGUMENT"
  ELSE IF handle.event_type \notin DOMAIN event_map THEN "RMW_RET_ERROR"
  ELSE IF event_map[handle.event_type] \notin
            {QosEventKind("subscription"), QosEventKind("publisher")}
    THEN "RMW_RET_INVALID_ARGUMENT"
  ELSE "RMW_RET_OK"

\* rmw_event_set_callback(rmw_event, callback, user_data): a failed check
\* returns its code; otherwise the entity's event_set_callback is called with
\* the zenoh kind of the handle's event type.
rmw_event_set_callback(t, e) ==
  /\ e \in EventEntities
  /\ pc[t] = "idle"
  /\ entity = e
  /\ set_calls < MaxSetCalls
  /\ set_calls' = set_calls + 1
  /\ \E handle \in EventHandleArgs, a \in SetArgs :
       IF EventSetCallbackRet(handle) # "RMW_RET_OK"
         THEN /\ ret' = [ret EXCEPT ![t] = RMW_RET(EventSetCallbackRet(handle))]
              /\ UNCHANGED <<pc, local>>
         ELSE /\ handle.data = e
              /\ pc' = [pc EXCEPT ![t] = "event_set_check"]
              /\ ret' = [ret EXCEPT ![t] = NoVal]
              /\ local' = [local EXCEPT ![t] =
                             [event_id |-> event_map[handle.event_type],
                              callback |-> a[2], user_data |-> a[1],
                              returns |-> RMW_RET("RMW_RET_OK")]]
  /\ UNCHANGED <<cfg, queues, ghost_q, svc_cli, user_callback_data_,
                 event_callback_data_, cb_log, conds, mutex, arrivals, log_,
                 rmw_event>>

\* The event_info and taken arguments of rmw_take_event: a null pointer, or
\* the application's status structure and flag as they are before the call.
EventInfoArgs == {Empty, [total_count |-> 5, total_count_change |-> 1]}
TakenArgs == {NULL, "true"}

\* The rmw_event_t arguments of rmw_take_event: those above and the handle
\* with no entity behind it.
TakeEventHandleArgs == EventHandleArgs \cup {[rmw_event EXCEPT !.data = NULL]}

NoEvents == [total_count |-> 0, total_count_change |-> 0]

\* An rmw_take_event that sets *taken before it looks at the handle.
TakeEventTakenFirst(event_handle, event_info, taken) ==
  IF event_handle = Empty \/ event_info = Empty \/ taken = NULL
    THEN [rmw_ret |-> "RMW_RET_INVALID_ARGUMENT",
          event_info |-> event_info, taken |-> taken]
  ELSE IF event_handle.implementation_identifier # rmw_zenoh_identifier
    THEN [rmw_ret |-> "RMW_RET_INCORRECT_RMW_IMPLEMENTATION",
          event_info |-> event_info, taken |-> "true"]
  ELSE IF event_handle.event_type \notin DOMAIN event_map
    THEN [rmw_ret |-> "RMW_RET_ERROR", event_info |-> event_info, taken |-> "true"]
  ELSE [rmw_ret |-> "RMW_RET_OK", event_info |-> NoEvents, taken |-> "true"]

\* rmw_take_event(event_handle, event_info, taken): the code returned, and
\* *event_info and *taken afterwards.
TakeEvent(event_handle, event_info, taken) ==
  IF event_handle = Empty \/ event_info = Empty \/ taken = NULL
    THEN [rmw_ret |-> "RMW_RET_INVALID_ARGUMENT",
          event_info |-> event_info, taken |-> taken]
  ELSE IF event_handle.implementation_identifier # rmw_zenoh_identifier
    THEN [rmw_ret |-> "RMW_RET_INCORRECT_RMW_IMPLEMENTATION",
          event_info |-> event_info, taken |-> "false"]
  ELSE IF event_handle.event_type \notin DOMAIN event_map
    THEN [rmw_ret |-> "RMW_RET_ERROR", event_info |-> event_info, taken |-> "false"]
  ELSE IF event_map[event_handle.event_type] = QosEventKind("subscription")
    THEN IF event_handle.data = NULL
           THEN [rmw_ret |-> "RMW_RET_INVALID_ARGUMENT",
                 event_info |-> event_info, taken |-> "false"]
           ELSE [rmw_ret |-> "RMW_RET_OK", event_info |-> NoEvents, taken |-> "true"]
  ELSE IF event_map[event_handle.event_type] = QosEventKind("publisher")
    THEN [rmw_ret |-> "RMW_RET_OK", event_info |-> NoEvents, taken |-> "true"]
  ELSE [rmw_ret |-> "RMW_RET_INVALID_ARGUMENT",
        event_info |-> event_info, taken |-> "false"]

\* The call of thread t; what it returns is kept with its arguments.
rmw_take_event(t, e) ==
  /\ e \in EventEntities
  /\ pc[t] = "idle"
  /\ entity = e
  /\ \E event_handle \in TakeEventHandleArgs, event_info \in EventInfoArgs,
        taken \in TakenArgs :
       ret' = [ret EXCEPT ![t] =
                 [args |-> [event_handle |-> event_handle,
                            event_info |-> event_info, taken |-> taken],
                  result |-> TakeEvent(event_handle, event_info, taken)]]
  /\ UNCHANGED <<cfg, queues, ghost_q, svc_cli, events, conds, mutex, pc, local,
                 arrivals, log_>>

\* ------------------------------------------------- client sequence numbers
\* get_next_sequence_number: lock sequence_number_mutex; `return
\* sequence_number++` reads the old value ...
get_next_sequence_number_call(t) ==
  /\ Call(t, "client", "seq_lock")
  /\ seq_calls < MaxSeqCalls
  /\ seq_calls' = seq_calls + 1
  /\ UNCHANGED <<cfg, queues, ghost_q, sequence_to_query_map_, accepted,
                 sequence_number, issued, events, conds, mutex, local,
                 arrivals, log_>>

get_next_sequence_number_lock(t) ==
  /\ At(t, "client", "seq_lock")
  /\ Goto(t, "seq_increment")
  /\ UNCHANGED ret
  /\ CanLock(SeqMutex)
  /\ mutex' = Lock(mutex, t, SeqMutex)
  /\ local' = [local EXCEPT ![t] = sequence_number]
  /\ UNCHANGED <<cfg, queues, ghost_q, svc_cli, events, conds, arrivals, log_>>

\* A counter that is read but never advanced.
NotIncremented(old) == old

\* What the post-increment stores, given the value it read.
Incremented(old) == old + 1

\* ... stores the incremented one and returns the old one.
get_next_sequence_number(t) ==
  /\ At(t, "client", "seq_increment")
  /\ sequence_number' = Incremented(local[t])
  /\ issued' = Append(issued, local[t])
  /\ mutex' = Unlock(mutex, SeqMutex)
  /\ Return(t, Number(local[t]))
  /\ UNCHANGED <<cfg, queues, ghost_q, sequence_to_query_map_, accepted,
                 seq_calls, events, conds, arrivals, log_>>

\* ---------------------------------------------------- service sequence map
add_to_query_map_lock(t) ==
  /\ Call(t, "service", "map_add")
  /\ CanLock(MapMutex)
  /\ mutex' = Lock(mutex, t, MapMutex)
  /\ UNCHANGED <<cfg, queues, ghost_q, svc_cli, events, conds, local,
                 arrivals, log_>>

\* std::unordered_map::emplace of a key the map does not hold.
Emplace(m, k, q) == [x \in DOMAIN m \cup {k} |-> IF x = k THEN q ELSE m[x]]

\* std::unordered_map::clear() in the place of erase(iterator).
EraseAll(m, k) == [x \in {} |-> m[x]]

\* std::unordered_map::erase of the entry of key k.
Erase(m, k) == [x \in DOMAIN m \ {k} |-> m[x]]

\* An insertion that replaces the stored query (operator[] for find+emplace).
AddToQueryMapOverwrites(m, k, q) == [map |-> Emplace(m, k, q), result |-> TRUE]

\* The map and the result of add_to_query_map(sequence_number, query).
AddToQueryMap(m, k, q) ==
  IF k \in DOMAIN m
    THEN [map |-> m, result |-> FALSE]
    ELSE [map |-> Emplace(m, k, q), result |-> TRUE]

add_to_query_map(t) ==
  /\ At(t, "service", "map_add")
  /\ \E k \in Keys, q \in Queries :
       LET r == AddToQueryMap(sequence_to_query_map_, k, q) IN
         /\ sequence_to_query_map_' = r.map
         /\ accepted' = IF r.result THEN accepted \cup {<<k, q>>} ELSE accepted
         /\ local' = [local EXCEPT ![t] = NoVal]
         /\ pc' = [pc EXCEPT ![t] = "idle"]
         /\ ret' = [ret EXCEPT ![t] = [key |-> k, query |-> q, result |-> r.result]]
  /\ mutex' = Unlock(mutex, MapMutex)
  /\ UNCHANGED <<cfg, queues, ghost_q, sequence_number, issued, seq_calls,
                 events, conds, arrivals, log_>>

take_from_query_map_lock(t) ==
  /\ Call(t, "service", "map_take")
  /\ CanLock(MapMutex)
  /\ mutex' = Lock(mutex, t, MapMutex)
  /\ UNCHANGED <<cfg, queues, ghost_q, svc_cli, events, conds, local,
                 arrivals, log_>>

\* The map and the result of take_from_query_map(sequence_number).
TakeFromQueryMap(m, k) ==
  IF k \notin DOMAIN m
    THEN [map |-> m, result |-> NULL]
    ELSE [map |-> Erase(m, k), result |-> m[k]]

take_from_query_map(t) ==
  /\ At(t, "service", "map_take")
  /\ \E k \in Keys :
       LET r == TakeFromQueryMap(sequence_to_query_map_, k) IN
         /\ sequence_to_query_map_' = r.map
         /\ accepted' = accepted \ {<<k, r.result>>}
         /\ local' = [local EXCEPT ![t] = NoVal]
         /\ pc' = [pc EXCEPT ![t] = "idle"]
         /\ ret' = [ret EXCEPT ![t] = [key |-> k, taken |-> r.result]]
  /\ mutex' = Unlock(mutex, MapMutex)
  /\ UNCHANGED <<cfg, queues, ghost_q, sequence_number, issued, seq_calls,
                 events, conds, arrivals, log_>>

\* --------------------------------------------------------- specifications
\* The steps of add_new_message / add_new_query / add_new_reply after the
\* queue mutex is taken.
AddNew(t, e) ==
  \/ add_new_emplace_back(t, e)
  \/ add_new_event_lock(t, e)
  \/ add_new_trigger(t, e)
  \/ notify_lock(t, e)
  \/ notify_read(t, e)
  \/ notify(t, e)

\* The arrival of one item: a wire handler and the add_new_* call it makes.
Arrival(t, e) ==
  \/ transport_callback(t)
  \/ sub_data_handler(t)
  \/ service_data_handler(t)
  \/ client_data_handler(t)
  \/ add_new_message_lock(t)
  \/ add_new_item_lock(t, e)
  \/ AddNew(t, e)

ClientArrival(t) ==
  \/ transport_callback(t)
  \/ client_data_handler(t)
  \/ add_new_item_lock(t, "client")
  \/ AddNew(t, "client")

Pop(t, e) ==
  \/ pop_next_lock(t, e)
  \/ pop_next_front(t, e)
  \/ pop_next_pop_front(t, e)

SetCallback(t, e) ==
  \/ set_on_new_callback_lock(t, e)
  \/ set_on_new_callback(t, e)

Bridge(t, e) ==
  \/ attach_condition_lock(t, e)
  \/ attach_condition(t, e)
  \/ detach_condition_lock(t, e)
  \/ detach_condition(t, e)

SequenceNumber(t) ==
  \/ get_next_sequence_number_call(t)
  \/ get_next_sequence_number_lock(t)
  \/ get_next_sequence_number(t)

QueryMap(t) ==
  \/ add_to_query_map_lock(t)
  \/ add_to_query_map(t)
  \/ take_from_query_map_lock(t)
  \/ take_from_query_map(t)

\* The client's reply path, its calls following one another on one thread:
\* replies arrive while the application sets the callback and attaches or
\* detaches its condition.
InitClient == Init /\ entity = "client"
NextClient ==
  ClientArrival("t1") \/ SetCallback("t1", "client") \/ Bridge("t1", "client")
SpecClient == InitClient /\ [][NextClient]_vars

\* The queues: transport threads push while application threads pop.
NextQueue == \E t \in Threads, e \in Entities : Arrival(t, e) \/ Pop(t, e)
SpecQueue == Init /\ [][NextQueue]_vars

\* The callback registry: transport threads push while application threads
\* set, replace and clear the new-data callback.
NextEvents == \E t \in Workers, e \in Entities : Arrival(t, e) \/ SetCallback(t, e)
SpecEvents == Init /\ [][NextEvents]_vars

\* The client's sequence-number generator, called from several threads.
NextSequence == \E t \in Threads : SequenceNumber(t)
SpecSequence == InitClient /\ [][NextSequence]_vars

\* The service-side sequence map.
InitService == Init /\ entity = "service"
NextService == \E t \in Workers : QueryMap(t)
SpecService == InitService /\ [][NextService]_vars

\* The QoS-event registry of a publisher or a subscription: events are
\* recorded while the application sets, replaces and clears event callbacks.
EventSetCallback(t, e) ==
  \/ event_set_callback_call(t, e)
  \/ event_set_callback_check(t, e)
  \/ event_set_callback(t, e)

RecordEvent(t, e) == record_event_lock(t, e) \/ record_event(t, e)

InitEventRegistry == Constructed(EventEntities, 1..MaxDepth)
NextEventRegistry ==
  \E e \in EventEntities : EventSetCallback("t1", e) \/ RecordEvent("t2", e)
SpecEventRegistry == InitEventRegistry /\ [][NextEventRegistry]_vars

\* The rmw_event.cpp entry points called by an application thread while the
\* entity records QoS events on another thread.
EventEntryPoint(t, e) ==
  \/ rmw_event_init(t, e)
  \/ rmw_event_set_callback(t, e)
  \/ event_set_callback_check(t, e)
  \/ event_set_callback(t, e)
  \/ rmw_take_event(t, e)

NextEventEntry ==
  \E e \in EventEntities : EventEntryPoint("t1", e) \/ RecordEvent("t2", e)
SpecEventEntry == InitEventRegistry /\ [][NextEventEntry]_vars

IsEmpty(t, e) == queue_is_empty_lock(t, e) \/ queue_is_empty(t, e)

\* The operations of an entity an application thread calls.
ApplicationCall(t, e) ==
  \/ Pop(t, e)
  \/ IsEmpty(t, e)
  \/ SetCallback(t, e)
  \/ Bridge(t, e)
  \/ QueryMap(t)
  \/ SequenceNumber(t)

\* All operations together: a transport thread pushes while an application
\* thread calls the others.  A thread that is inside an operation takes its
\* next step if that step is possible again and again (std::mutex::lock of a
\* mutex that keeps being released returns).
\* The calls and arguments tried there: few arrivals and calls, one condition
\* variable, one user-data pointer, one sequence number as map key.
MaxFairArrivals == 1
MaxFairCalls == 1
FairInputs ==
  /\ arrivals <= MaxFairArrivals
  /\ set_calls <= MaxFairCalls
  /\ seq_calls <= MaxFairCalls
  /\ condition_[entity] \in {NULL, "cv1"}
  /\ user_callback_data_[entity].user_data \in {NULL, "ud1"}
  /\ DOMAIN sequence_to_query_map_ \subseteq {41}
  /\ \A t \in Workers : "key" \in DOMAIN ret[t] => ret[t].key = 41
  /\ \A t \in Workers : "query" \in DOMAIN ret[t] => ret[t].query = "q1"
  /\ \A t \in Workers :
       pc[t] = "attach_store" => local[t].condition_variable = "cv1"

NextFair ==
  /\ \E e \in Entities : Arrival("t1", e) \/ ApplicationCall("t2", e)
  /\ FairInputs'

\* A step of thread t inside an operation it has entered.
Running(t) == pc[t] # "idle" /\ NextFair /\ pc'[t] # pc[t]
InitFair == Constructed(Entities, {1})
SpecFair ==
  InitFair /\ [][NextFair]_vars /\ \A t \in Workers : SF_vars(Running(t))

\* A subscription whose depth was left at 0.
MessageArrival(t) ==
  \/ transport_callback(t)
  \/ sub_data_handler(t)
  \/ add_new_message_lock(t)
  \/ AddNew(t, "subscription")

InitDepthZero == Constructed({"subscription"}, {0})
NextDepthZero == \E t \in Threads : MessageArrival(t) \/ Pop(t, "subscription")
SpecDepthZero == InitDepthZero /\ [][NextDepthZero]_vars

\* The wake-up path: a transport thread pushes while an application thread
\* sets the new-data callback and attaches or detaches its condition.
NextWake ==
  \E e \in Entities : Arrival("t1", e) \/ SetCallback("t1", e) \/ Bridge("t1", e)
SpecWake == Init /\ [][NextWake]_vars

\* The condition-variable bridge.
NextBridge == \E t \in Workers, e \in Entities : Arrival(t, e) \/ Bridge(t, e)
SpecBridge == Init /\ [][NextBridge]_vars
\* ------------------------------------------------------------------ claims
Min(a, b) == IF a < b THEN a ELSE b

Increasing(s) == \A i, j \in 1..Len(s) : i < j => s[i] < s[j]

Distinct(s) == \A i, j \in 1..Len(s) : i # j => s[i] # s[j]

\* The arrivals the registry has been told of: the items inserted less those
\* whose add_new_* call has not yet reached the callback data.
Recorded ==
  pushed - Cardinality({t \in Threads : pc[t] \in {"push_event_lock", "push_trigger"}})

\* C1: a subscription queue of depth D >= 1 never holds more than D messages,
\* and after N add_new_message calls with no pop in between it holds exactly
\* the min(N, D) most recently pushed messages, in arrival order.
C1_DepthBoundedMostRecent ==
  entity = "subscription" =>
    /\ Len(message_queue_) <= depth
    /\ (popped = <<>> /\ \A t \in Threads : pc[t] # "push_emplace") =>
         message_queue_ =
           [i \in 1..Min(pushed, depth) |-> pushed - Min(pushed, depth) + i]

C1_Witness ==
  /\ entity = "subscription" /\ depth = 2
  /\ pushed = 3 /\ popped = <<>> /\ message_queue_ = <<2, 3>>
  /\ \A t \in Threads : pc[t] = "idle"

\* C2: on each of the three queues the items successive pops return are in
\* push order (a subsequence of it), every completing pop returns the oldest
\* queued item and removes exactly it; so a pop right after push(x) on an
\* empty queue returns x.
C2_Fifo ==
  /\ [](Increasing(popped))
  /\ [][\A t \in Threads :
          (pc[t] = "pop_pop_front" /\ pc'[t] = "idle") =>
            /\ Queue(entity) # <<>>
            /\ ret'[t] = Item(Head(Queue(entity)))
            /\ Queue(entity)' = Tail(Queue(entity))
            /\ popped' = Append(popped, Head(Queue(entity)))]_vars

C2_Witness ==
  /\ entity = "subscription" /\ popped = <<1, 3>> /\ dropped = <<2>>
  /\ \E t \in Threads : pc[t] = "idle" /\ ret[t] = Item(3)

\* C3: a pop on an empty queue returns nullptr, changes neither the queue nor
\* the unread count nor the callback registration, and its step never waits
\* for an item to arrive.
C3_PopEmpty ==
  /\ [](\A t \in Threads : pc[t] = "pop_front" => ENABLED pop_next_front(t, entity))
  /\ [][\A t \in Threads :
          (pc[t] = "pop_front" /\ pc'[t] # "pop_front" /\ Queue(entity) = <<>>) =>
            /\ pc'[t] = "idle" /\ ret'[t] = Empty
            /\ UNCHANGED <<queues, ghost_q, user_callback_data_, cb_log>>]_vars

C3_Witness ==
  /\ Queue(entity) = <<>> /\ popped = <<1>>
  /\ user_callback_data_[entity].unread_count = 1
  /\ \E t \in Threads : pc[t] = "idle" /\ ret[t] = Empty

\* C4: the k-th get_next_sequence_number call to return on a client returns
\* k-1: the first returns 0 and each later one the next larger value, so the
\* values are strictly increasing and never repeat.
C4_SequenceNumbers ==
  /\ \A i \in 1..Len(issued) : issued[i] = i - 1
  /\ Increasing(issued)

C4_Witness == issued = <<0, 1, 2>> /\ sequence_number = 3

\* C5: with threads calling get_next_sequence_number concurrently, no two
\* calls return the same value and none is skipped: the values returned by
\* the K completed calls are exactly 0..K-1.
C5_ConcurrentSequenceNumbers ==
  /\ {issued[i] : i \in 1..Len(issued)} = 0..(Len(issued) - 1)
  /\ \A t, u \in Threads :
       (t # u /\ ret[t] # NoVal /\ ret[u] # NoVal) => ret[t] # ret[u]

C5_Witness ==
  /\ \E t, u \in Threads : pc[t] = "seq_increment" /\ pc[u] = "seq_lock"
  /\ \E t \in Threads : pc[t] = "idle" /\ ret[t] = Number(0)

\* C6: add_to_query_map returns true exactly when no query is held for the
\* key, take_from_query_map returns the query held for the key and releases
\* it, or nullptr when none is held; no key ever holds two queries.
C6_QueryMap ==
  /\ [](\A k \in Keys : Cardinality({p \in accepted : p[1] = k}) <= 1)
  /\ [][\A t \in Threads :
          /\ (pc[t] = "map_add" /\ pc'[t] = "idle") =>
               ret'[t].result = (\A p \in accepted : p[1] # ret'[t].key)
          /\ (pc[t] = "map_take" /\ pc'[t] = "idle") =>
               IF \E p \in accepted : p[1] = ret'[t].key
                 THEN /\ <<ret'[t].key, ret'[t].taken>> \in accepted
                      /\ \A p \in accepted' : p[1] # ret'[t].key
                 ELSE ret'[t].taken = NULL /\ accepted' = accepted]_vars

C6_Witness ==
  /\ accepted = {}
  /\ ret["t1"] = [key |-> 42, taken |-> NULL]
  /\ ret["t2"] = [key |-> 42, query |-> "q2", result |-> FALSE]

\* C7: a set-callback call with a non-null callback and N >= 1 unread
\* arrivals invokes that callback once, with the new user data and count N,
\* and zeroes the unread count (N is every arrival recorded so far when no
\* callback has run yet); with no unread arrival it invokes nothing; an
\* arrival that finds a callback set invokes it once with count 1.
C7_SetCallbackFlush ==
  [][\A t \in Threads :
       LET old == user_callback_data_[entity]
           new == user_callback_data_'[entity]
       IN
         /\ (pc[t] = "set_store" /\ pc'[t] = "idle") =>
              /\ (new.callback # NULL /\ old.unread_count >= 1) =>
                   /\ cb_log'.calls = cb_log.calls + 1
                   /\ cb_log'.last =
                        Invocation(new.callback, new.user_data, old.unread_count)
                   /\ new.unread_count = 0
                   /\ cb_log.calls = 0 => old.unread_count = Recorded
              /\ old.unread_count = 0 => cb_log' = cb_log /\ new.unread_count = 0
         /\ (pc[t] = "push_trigger" /\ pc'[t] # "push_trigger"
               /\ old.callback # NULL) =>
              /\ cb_log'.calls = cb_log.calls + 1
              /\ cb_log'.last = Invocation(old.callback, old.user_data, 1)]_vars

C7_Witness ==
  /\ pushed = 3 /\ cb_log.calls = 2 /\ cb_log.sum = 3
  /\ cb_log.last.count = 1
  /\ user_callback_data_[entity].unread_count = 0

\* C8: no arrival is lost or counted twice: the counts passed to the
\* callback so far plus the unread count equal the arrivals recorded, and
\* each arrival either invokes the callback with count 1 or adds one to the
\* unread count, never both and never neither.
C8_NoArrivalLost ==
  /\ [](cb_log.sum + user_callback_data_[entity].unread_count = Recorded)
  /\ [][\A t \in Threads :
          LET old == user_callback_data_[entity]
              new == user_callback_data_'[entity]
          IN (pc[t] = "push_trigger" /\ pc'[t] # "push_trigger") =>
               \/ /\ cb_log'.calls = cb_log.calls + 1
                  /\ cb_log'.sum = cb_log.sum + 1
                  /\ new.unread_count = old.unread_count
               \/ /\ cb_log' = cb_log
                  /\ new.unread_count = old.unread_count + 1]_vars

C8_Witness ==
  /\ set_calls = 2 /\ pushed = 3 /\ Recorded = 3
  /\ cb_log.sum = 2 /\ user_callback_data_[entity].unread_count = 1
  /\ user_callback_data_[entity].callback = NULL

\* C9: with threads pushing and popping one subscription concurrently, the
\* queue length stays within 0..depth and no message is returned by two pops.
C9_ConcurrentQueue ==
  entity = "subscription" =>
    /\ Len(message_queue_) \in 0..depth
    /\ Distinct(popped)
    /\ \A i \in 1..Len(popped) : \A j \in 1..Len(message_queue_) :
         popped[i] # message_queue_[j]

C9_Witness ==
  /\ entity = "subscription" /\ Len(message_queue_) = depth
  /\ \E t, u, v \in Threads :
       /\ pc[t] = "pop_pop_front"
       /\ pc[u] = "push_lock" /\ pc[v] = "push_lock" /\ u # v

\* C10: client_data_handler drops a reply that fails z_reply_check or is not
\* ok: the reply queue, the callback data, the invocations and the notified
\* conditions stay as they are and the transport's reply handle is returned
\* untouched.  Only an ok reply is appended to the reply queue, and only the
\* handler of an appended reply nulls the handle.
C10_BadReplyDropped ==
  [][\A t \in Threads :
       /\ (pc[t] = "handler" /\ pc'[t] # "handler" /\ local[t].reply # "ok") =>
            /\ pc'[t] = "idle" /\ ret'[t] = Handle(local[t].reply)
            /\ UNCHANGED <<reply_queue_, pushed, user_callback_data_, cb_log,
                           condition_, notified>>
       /\ (pc[t] = "push_emplace" /\ pc'[t] # "push_emplace") =>
            local[t].reply = "ok" /\ reply_queue_' = Append(reply_queue_, pushed + 1)
       /\ reply_queue_' # reply_queue_ => \E u \in Threads : pc[u] = "push_emplace"
       /\ (pc[t] # "idle" /\ pc'[t] = "idle") =>
            (ret'[t] = Handle("z_reply_null")) =
              (pc[t] = "push_notify_one" /\ local[t].reply = "ok")]_vars

C10_Witness ==
  /\ ret["t1"] = Handle("error") /\ reply_queue_ = <<1>>
  /\ user_callback_data_["client"].callback # NULL
  /\ user_callback_data_["client"].unread_count = 0
  /\ condition_["client"] # NULL /\ notified[condition_["client"]] = 1

\* The mutexes thread t holds.
Held(t) == {m \in Mutexes : mutex[m] = t}

\* C11: no thread ever holds two distinct mutexes (queue, callback data,
\* condition, sequence map, sequence counter) at the same time.
C11_NoTwoMutexesHeld == \A t \in Threads : Cardinality(Held(t)) <= 1

\* The positions of an application thread inside pop, set-callback, attach
\* and detach (each holds the mutex of its operation there).
ApplicationPcs ==
  {"pop_front", "pop_pop_front", "set_store", "attach_store", "detach_store"}

\* The mutex a thread in add_new_* is about to lock, if any.
WaitsFor(t) ==
  CASE pc[t] = "push_lock" -> {QueueMutex(entity)}
    [] pc[t] = "push_event_lock" -> {EventMutex(entity)}
    [] pc[t] = "push_notify_lock" -> {CondMutex(entity)}
    [] OTHER -> {}

\* C12: a transport thread in a push is never blocked on a lock that an
\* application-thread operation (pop, set-callback with its flush, attach,
\* detach) holds, and the push never runs the user callback while it holds
\* the queue lock.
C12_PushNeverWaitsOnApplication ==
  \A t \in Threads :
    /\ \A m \in WaitsFor(t) :
         ~(mutex[m] \in Threads /\ pc[mutex[m]] \in ApplicationPcs)
    /\ (pc[t] = "push_trigger" /\ user_callback_data_[entity].callback # NULL) =>
         QueueMutex(entity) \notin Held(t)

\* C13: a set-callback operation called with a null callback clears the
\* stored user context along with the callback, on set_on_new_*_callback and
\* on event_set_callback alike; so (the registry starting empty and changing
\* in set-callback only) no context is ever stored without a callback.
C13_NullCallbackClearsContext ==
  /\ \A e \in Entities :
       user_callback_data_[e].callback = NULL => user_callback_data_[e].user_data = NULL
  /\ \A e \in EventEntities, k \in EventKinds :
       event_callback_data_[e].event_callback[k] = NULL =>
         event_callback_data_[e].event_data[k] = NULL

\* C14: event_set_callback with an event kind past ZENOH_EVENT_ID_MAX returns
\* with an error and leaves every stored callback, context and unread count
\* alone, invoking nothing; with a known kind, a non-null callback and an
\* unread count N > 0 of that kind it invokes the callback once with the given
\* user data and N, zeroes that count and leaves the other kinds alone.
C14_EventSetCallback ==
  [][\A t \in Threads : \A e \in EventEntities :
       LET old == event_callback_data_[e]
           new == event_callback_data_'[e]
           a == local[t]
       IN
         /\ (At(t, e, "event_set_check") /\ pc'[t] # "event_set_check"
               /\ a.event_id > ZENOH_EVENT_ID_MAX) =>
              /\ pc'[t] = "idle"
              /\ log_'.error = log_.error + 1
              /\ UNCHANGED <<event_callback_data_, user_callback_data_, cb_log>>
         /\ (At(t, e, "event_set_check") /\ pc'[t] # "event_set_check"
               /\ a.event_id <= ZENOH_EVENT_ID_MAX) =>
              pc'[t] = "event_set_store" /\ log_' = log_
         /\ (At(t, e, "event_set_store") /\ pc'[t] = "idle") =>
              /\ a.event_id \in EventKinds
              /\ \A k \in EventKinds \ {a.event_id} :
                   /\ new.event_callback[k] = old.event_callback[k]
                   /\ new.event_data[k] = old.event_data[k]
                   /\ new.event_unread_count[k] = old.event_unread_count[k]
              /\ new.event_callback[a.event_id] = a.callback
              /\ IF a.callback # NULL /\ old.event_unread_count[a.event_id] > 0
                   THEN /\ cb_log'.calls = cb_log.calls + 1
                        /\ cb_log'.last =
                             Invocation(a.callback, a.user_data,
                                        old.event_unread_count[a.event_id])
                        /\ new.event_unread_count[a.event_id] = 0
                   ELSE /\ cb_log' = cb_log
                        /\ new.event_unread_count[a.event_id] =
                             old.event_unread_count[a.event_id]]_vars

C14_Witness ==
  /\ log_.error = 1 /\ set_calls = 2 /\ \A t \in Threads : pc[t] = "idle"
  /\ cb_log.calls = 1 /\ cb_log.last.count = 2
  /\ event_callback_data_[entity].event_unread_count[QosEventKind(entity)] = 0

\* C15: a wire handler called with a null destination pointer logs an error
\* and returns at once: no queue, payload, callback data, invocation,
\* condition, notification, map or mutex of any entity changes, and
\* client_data_handler leaves the transport's reply handle as it was.
C15_NullDestination ==
  [][\A t \in Threads :
       (pc[t] = "handler" /\ pc'[t] # "handler" /\ local[t].data = NULL) =>
         /\ pc'[t] = "idle"
         /\ log_'.error = log_.error + 1
         /\ entity = "client" => ret'[t] = Handle(local[t].reply)
         /\ UNCHANGED <<queues, ghost_q, user_callback_data_, event_callback_data_,
                        cb_log, conds, svc_cli, mutex>>]_vars

C15_Witness ==
  /\ entity = "client" /\ log_.error = 1 /\ reply_queue_ = <<1>>
  /\ \E t \in Threads : pc[t] = "idle" /\ ret[t] = Handle("ok")

\* C16: an entity stores at most one condition: attach_condition replaces
\* the stored one by its argument, detach_condition clears it, notify signals
\* the condition stored at that moment once, or nothing when none is stored,
\* and a condition that is not the stored one (never attached, replaced or
\* detached) is not signalled.
C16_OneCondition ==
  /\ [](condition_[entity] \in CVs \cup {NULL})
  /\ [][\A t \in Threads :
          /\ (pc[t] = "attach_store" /\ pc'[t] = "idle") =>
               /\ condition_'[entity] = local[t].condition_variable
               /\ notified' = notified
          /\ (pc[t] = "detach_store" /\ pc'[t] = "idle") =>
               condition_'[entity] = NULL /\ notified' = notified
          /\ (pc[t] = "push_notify_one" /\ pc'[t] = "idle") =>
               /\ condition_' = condition_
               /\ \A cv \in CVs :
                    notified'[cv] =
                      IF cv = condition_[entity] THEN notified[cv] + 1 ELSE notified[cv]
          /\ notified' # notified => \E u \in Threads : pc[u] = "push_notify_one"]_vars

C16_Witness ==
  /\ condition_[entity] = "cv2" /\ notified["cv1"] = 1 /\ notified["cv2"] = 1
  /\ pushed = 3 /\ \A t \in Threads : pc[t] = "idle"

\* C17: once detach_condition has returned, the condition it detached is
\* not signalled again (until it is attached again), also when add_new_* runs
\* concurrently with the detach: a condition is signalled only while it is
\* the stored one, detach returns with none stored, and no notify is then
\* left between its read of the pointer and its signal.
C17_NoSignalAfterDetach ==
  /\ [][\A cv \in CVs :
          notified'[cv] # notified[cv] =>
            condition_[entity] = cv /\ condition_'[entity] = cv]_vars
  /\ [][\A t \in Threads :
          (pc[t] = "detach_store" /\ pc'[t] = "idle") =>
            /\ condition_'[entity] = NULL
            /\ \A u \in Threads :
                 pc[u] = "push_notify_one" => local[u].condition_ = NULL]_vars
  /\ [](\A t \in Threads :
          pc[t] = "push_notify_one" => local[t].condition_ = condition_[entity])

C17_Witness ==
  /\ condition_[entity] = NULL /\ notified["cv1"] = 1 /\ pushed = 2
  /\ \E t, u \in Threads :
       /\ pc[t] = "push_notify_one" /\ local[t].condition_ = NULL
       /\ pc[u] = "idle" /\ ret[u] = NoVal /\ arrivals = 2

\* The items that were inserted into the entity's queue.
Inserted ==
  {Queue(entity)[i] : i \in 1..Len(Queue(entity))}
    \cup {popped[i] : i \in 1..Len(popped)}
    \cup {dropped[i] : i \in 1..Len(dropped)}

\* C18: a push inserts its item, then tells the registry once (the callback
\* runs with count 1, or the unread count grows by one), then notifies once
\* the condition stored at that moment, in this order; so when the registry is
\* told and when a condition is signalled, the item is already inserted.
C18_InsertThenTriggerThenNotify ==
  /\ [](\A t \in Threads :
          pc[t] \in {"push_event_lock", "push_trigger", "push_notify_lock",
                     "push_notify", "push_notify_one"} => local[t].item \in Inserted)
  /\ [](cb_log.sum + user_callback_data_[entity].unread_count = Recorded)
  /\ [][\A t \in Threads :
          LET old == user_callback_data_[entity]
              new == user_callback_data_'[entity]
          IN
            /\ (pc[t] = "push_emplace" /\ pc'[t] # "push_emplace") =>
                 /\ pc'[t] = "push_event_lock"
                 /\ Queue(entity)' = Append(Queue(entity), pushed + 1)
                 /\ UNCHANGED <<user_callback_data_, cb_log, notified>>
            /\ (pc[t] = "push_event_lock" /\ pc'[t] # "push_event_lock") =>
                 /\ pc'[t] = "push_trigger"
                 /\ UNCHANGED <<queues, user_callback_data_, cb_log, notified>>
            /\ (pc[t] = "push_trigger" /\ pc'[t] # "push_trigger") =>
                 /\ pc'[t] = "push_notify_lock"
                 /\ IF old.callback # NULL
                      THEN /\ cb_log'.calls = cb_log.calls + 1
                           /\ cb_log'.last = Invocation(old.callback, old.user_data, 1)
                           /\ new = old
                      ELSE /\ cb_log' = cb_log
                           /\ new = [old EXCEPT !.unread_count = @ + 1]
                 /\ UNCHANGED <<queues, notified>>
            /\ (pc[t] \in {"push_notify_lock", "push_notify"} /\ pc'[t] # pc[t]) =>
                 /\ pc'[t] \in {"push_notify", "push_notify_one"}
                 /\ UNCHANGED <<queues, user_callback_data_, cb_log, notified>>
            /\ (pc[t] = "push_notify_one" /\ pc'[t] # "push_notify_one") =>
                 /\ pc'[t] = "idle"
                 /\ notified' = Notified(notified, condition_[entity])
                 /\ UNCHANGED <<queues, user_callback_data_, cb_log>>]_vars

C18_Witness ==
  /\ pushed = 2 /\ \A t \in Threads : pc[t] = "idle"
  /\ cb_log.calls = 2 /\ cb_log.sum = 2
  /\ condition_[entity] # NULL /\ notified[condition_[entity]] = 2

\* How often x occurs in the sequence s.
Count(s, x) == Cardinality({i \in 1..Len(s) : s[i] = x})

\* C19: every message add_new_message accepted is in exactly one place:
\* held by one record of the queue, returned by one pop, or evicted with its
\* payload released once; none is released while queued, released twice, or
\* both evicted and returned; and nothing else is queued, returned or released.
C19_PayloadOwnedOnce ==
  entity = "subscription" =>
    /\ \A x \in 1..pushed :
         Count(message_queue_, x) + Count(popped, x) + Count(dropped, x) = 1
    /\ Len(message_queue_) + Len(popped) + Len(dropped) = pushed

C19_Witness ==
  /\ entity = "subscription" /\ depth = 1
  /\ message_queue_ = <<3>> /\ popped = <<1>> /\ dropped = <<2>>

\* C20: with depth 0 add_new_message never evicts from an empty queue (what
\* it releases is a message it had queued, and the first push releases
\* nothing), the queue never holds more than one message, and it holds what a
\* depth-1 queue holds: after pushes with no pop, the newest message alone,
\* the older ones released in order.
C20_DepthZero ==
  depth = 0 =>
    /\ Len(message_queue_) <= 1
    /\ \A i \in 1..Len(dropped) : dropped[i] \in 1..pushed
    /\ \A x \in 1..pushed :
         Count(message_queue_, x) + Count(popped, x) + Count(dropped, x) = 1
    /\ (popped = <<>> /\ \A t \in Threads : pc[t] = "idle") =>
         /\ message_queue_ = [i \in 1..Min(pushed, 1) |-> pushed]
         /\ dropped = [i \in 1..(pushed - Min(pushed, 1)) |-> i]

C20_Witness ==
  /\ depth = 0 /\ message_queue_ = <<3>> /\ dropped = <<1, 2>> /\ popped = <<>>
  /\ \A t \in Threads : pc[t] = "idle"

\* The steps of a push after its emplace_back.
AfterEmplace ==
  {"push_event_lock", "push_trigger", "push_notify_lock", "push_notify",
   "push_notify_one"}

\* C21: with a depth of at least 1, add_new_message has emitted the queue-depth
\* diagnostic as many times as it has evicted a message (so a push that evicts
\* nothing emits none), and every push that has passed its insertion has
\* inserted its message: the message is queued, or was popped or evicted
\* afterwards.
C21_DiagnosticIffEviction ==
  (entity = "subscription" /\ depth >= 1) =>
    /\ log_.debug = Len(dropped)
    /\ \A t \in Threads :
         pc[t] \in AfterEmplace =>
           /\ local[t].item \in 1..pushed
           /\ Count(message_queue_, local[t].item) + Count(popped, local[t].item)
                + Count(dropped, local[t].item) = 1

C21_Witness ==
  /\ entity = "subscription" /\ depth = 1
  /\ message_queue_ = <<2>> /\ dropped = <<1>> /\ popped = <<>>
  /\ log_.debug = 1
  /\ \A t \in Threads : pc[t] = "idle"

\* C22: a call of rmw_publisher_event_init, rmw_subscription_event_init or
\* rmw_event_set_callback that returns a code other than RMW_RET_OK leaves the
\* rmw_event handle as it was, leaves the callback, context and unread count
\* of every entity as they were, and invokes no callback.
C22_FailedCallNotApplied ==
  [][\A t \in Threads :
       (/\ pc[t] = "idle"
        /\ ret'[t] # ret[t]
        /\ DOMAIN ret'[t] = {"rmw_ret"}
        /\ ret'[t].rmw_ret # "RMW_RET_OK") =>
         UNCHANGED <<rmw_event, event_callback_data_, user_callback_data_,
                     cb_log>>]_vars

C22_Witness ==
  /\ ret["t1"] = RMW_RET("RMW_RET_UNSUPPORTED")
  /\ rmw_event = [implementation_identifier |-> rmw_zenoh_identifier,
                  data |-> entity, event_type |-> QosEventType(entity)]
  /\ event_callback_data_[entity].event_callback[QosEventKind(entity)] = "cb1"
  /\ cb_log.calls = 1

\* The entries of map m under the keys other than k.
Others(m, k) == [x \in DOMAIN m \ {k} |-> m[x]]

\* C23: an add_to_query_map that returns false leaves the whole sequence map
\* as it was; one that returns true stores its query under its key and leaves
\* the entries of the other keys as they were; take_from_query_map returns
\* the query the map holds for its key (so after a failed add, the one stored
\* first), removes that entry and leaves the entries of the other keys.
C23_QueryMapFrame ==
  [][\A t \in Threads :
       LET m == sequence_to_query_map_
           n == sequence_to_query_map_'
           r == ret'[t]
       IN
         /\ (pc[t] = "map_add" /\ pc'[t] = "idle") =>
              IF r.result
                THEN /\ r.key \notin DOMAIN m
                     /\ r.key \in DOMAIN n /\ n[r.key] = r.query
                     /\ Others(n, r.key) = m
                ELSE /\ r.key \in DOMAIN m
                     /\ n = m
         /\ (pc[t] = "map_take" /\ pc'[t] = "idle") =>
              /\ r.taken = (IF r.key \in DOMAIN m THEN m[r.key] ELSE NULL)
              /\ n = Others(m, r.key)]_vars

C23_Witness ==
  /\ ret["t2"] = [key |-> 42, query |-> "q2", result |-> FALSE]
  /\ ret["t1"] = [key |-> 42, taken |-> "q1"]
  /\ DOMAIN sequence_to_query_map_ = {41}

\* The place of a mutex in the order of acquisition; the sequence-map and
\* sequence-counter mutexes have none.
Rank(m) ==
  CASE m[2] = "queue_mutex_" -> 1
    [] m[2] = "user_callback_data_.mutex" -> 2
    [] m[2] = "condition_mutex_" -> 3
    [] OTHER -> 0

C25_NoDepthBound ==
  entity \in {"service", "client"} =>
    /\ dropped = <<>> /\ log_.debug = 0
    /\ \A x \in 1..pushed : Count(Queue(entity), x) + Count(popped, x) = 1
    /\ Len(Queue(entity)) = pushed - Len(popped)
    /\ \A t \in Threads :
         (pc[t] = "idle" /\ "item" \in DOMAIN ret[t]) =>
           Count(popped, ret[t].item) = 1

C25_Witness ==
  /\ entity = "service" /\ depth = 1
  /\ query_queue_ = <<2, 3>> /\ popped = <<1>>
  /\ ret["t3"] = Item(1)

\* C26: a call of rmw_take_event that passed its null-argument checks leaves
\* *taken true exactly when it returns RMW_RET_OK, and then it has written
\* total_count = 0 and total_count_change = 0, however many events the entity
\* recorded; on its other returns *taken is false and event_info is as the
\* caller passed it.  A call stopped by a null argument returns
\* RMW_RET_INVALID_ARGUMENT and writes nothing.  No call changes the callback,
\* context or unread count of an entity or invokes a callback.
C26_TakeEvent ==
  /\ [](\A t \in Threads :
          "result" \in DOMAIN ret[t] =>
            LET a == ret[t].args
                r == ret[t].result
                checked == a.event_handle # Empty /\ a.event_info # Empty
                             /\ a.taken # NULL
            IN
              /\ r.rmw_ret = "RMW_RET_OK" =>
                   checked /\ r.taken = "true" /\ r.event_info = NoEvents
              /\ (checked /\ r.rmw_ret # "RMW_RET_OK") =>
                   r.taken = "false" /\ r.event_info = a.event_info
              /\ ~checked =>
                   /\ r.rmw_ret = "RMW_RET_INVALID_ARGUMENT"
                   /\ r.taken = a.taken /\ r.event_info = a.event_info
              /\ (/\ checked
                  /\ a.event_handle.implementation_identifier # rmw_zenoh_identifier) =>
                   r.rmw_ret = "RMW_RET_INCORRECT_RMW_IMPLEMENTATION")
  /\ [][\A t \in Threads :
          (pc[t] = "idle" /\ ret'[t] # ret[t] /\ "result" \in DOMAIN ret'[t]) =>
            UNCHANGED <<event_callback_data_, user_callback_data_, cb_log,
                        rmw_event>>]_vars

C26_Witness ==
  /\ "result" \in DOMAIN ret["t1"]
  /\ ret["t1"].result =
       [rmw_ret |-> "RMW_RET_OK", event_info |-> NoEvents, taken |-> "true"]
  /\ ret["t1"].args.event_handle = rmw_event
  /\ event_callback_data_[entity].event_unread_count[QosEventKind(entity)] = 2
====
